---- MODULE Spec2Model ----
(***************************************************************************)
(* The image cache and memory-management layer of the health tracker app:  *)
(* ImageCache (getCachedImage, clearImage, clearAll, cleanup and their     *)
(* private helpers) on top of ImageMemoryManager (the byte accountant) and *)
(* the pass-through compressImage.                                         *)
(*                                                                         *)
(* All code runs on one JavaScript event loop: a getCachedImage call runs  *)
(* without interruption between two awaits, so every action below is one   *)
(* such run-to-completion segment.  The segment from cache.set to the end  *)
(* of the loop of enforceCacheLimits is split into steps (insert, one step *)
(* per loop pass); while a call is in that segment no other action is      *)
(* enabled, which keeps the segment uninterruptible.                        *)
(*                                                                         *)
(* Byte counts are the program's own numbers.  Floating point products     *)
(* with 0.8 are written as integer comparisons (x * 5 against y * 4),     *)
(* which agree with the IEEE results for every value that occurs here.     *)
(***************************************************************************)
EXTENDS Integers, Sequences, FiniteSets, TLC

VARIABLES
    cache,      \* ImageCache.cache: the Map, as the sequence of its entries in insertion order
    usage,      \* ImageMemoryManager.memoryUsage
    now,        \* Date.now()
    pc,         \* position of every getCachedImage call slot
    call,       \* locals of every call: imageUri, options, estimatedSize, processedSize
    result,     \* value the call's promise resolved with
    spin,       \* the loop of enforceCacheLimits made a pass that removed nothing
    started,    \* number of getCachedImage calls made so far
    memCall,    \* the latest direct call of ImageMemoryManager and what it returned
    lifecycle,  \* AppLifecycleManager: fields, app state, pending timers, performCleanup
    preload,    \* ImageCache.preloadImages: its position and its list of uris
    processor   \* the latest call of ImageProcessor / transport conversion and what it returned

vars == <<cache, usage, now, pc, call, result, spin, started, memCall, lifecycle, preload,
          processor>>

\* What no operation of ImageCache touches.
outside == <<memCall, lifecycle, preload, processor>>

----------------------------------------------------------------------------
(* Program constants *)

MEMORY_LIMIT == 104857600
MAX_CACHE_SIZE == 52428800
CACHE_EXPIRY_MS == 1800000
DEFAULT_ESTIMATE == 1048576

\* MAX_CACHE_ENTRIES is 20 in the program; the model runs it with this
\* smaller count limit so that the limit is exceeded with few images.
MAX_CACHE_ENTRIES == 2

Undefined == -1

Priorities == {"low", "normal", "high"}

SizeThreshold(priority) ==
    CASE priority = "low" -> 2 * 1024 * 1024
      [] priority = "normal" -> 1 * 1024 * 1024
      [] priority = "high" -> 512 * 1024

----------------------------------------------------------------------------
(* Bounds and inputs of the model *)

\* The image sources: the byte size a successful fetch of each URI reports.
\* 2,000,000 bytes; two images of 30MB; one image of 120MB; 700,000 bytes;
\* one image of 15MB.
SourceSize == <<2000000, 31457280, 31457280, 125829120, 700000, 15728640>>

Uris == DOMAIN SourceSize

Calls == {1, 2}

\* The clock advances in steps of a third of the expiry window.
TickMs == CACHE_EXPIRY_MS \div 3

\* Spec: calls may overlap (two slots); SpecSeq: one call at a time, longer runs.
MaxStarted == 2
MaxTicks == 4
MaxStartedSeq == 3
MaxTicksSeq == 4

RequiredBytes == {0, 31457280}

\* SpecMem: the byte counts of the direct calls of ImageMemoryManager
\* (nothing, 1MB, half the limit, more than the limit), and their number.
MemBytes == {0, 1048576, 52428800, 125829120}
MaxMemCalls == 4

\* SpecLife: the timers handleAppBackground may set, the getCachedImage
\* calls made (one at a time) and the images they ask for (2,000,000
\* bytes, 30MB, 120MB).
MaxTimers == 2
MaxStartedLife == 2
LifeUris == {1, 2, 4}
AppStates == {"active", "inactive", "background"}

\* SpecProc: the images canProcessImage is asked about, as <<width, height>>
\* (the third to last has an estimate of exactly the 50MB ceiling as jpeg),
\* and the byte counts of the images converted to base64.
Dimensions ==
    {<<1, 1>>, <<3, 1>>, <<100, 100>>, <<1024, 1024>>, <<1920, 1080>>, <<2000, 1873>>,
     <<4993219, 1>>, <<4993220, 1>>, <<4000, 3000>>}
Formats == {"jpeg", "png"}
MaxRawBytes == 12
RawBytes == 1..MaxRawBytes

\* SpecPreload: the images preloadImages is asked for (2,000,000 bytes, 30MB,
\* 120MB), in lists of one or two, and the getCachedImage calls made.
PreloadUris == {1, 2, 4}
PreloadLists == {<<u>> : u \in PreloadUris} \cup {<<u, v>> : u, v \in PreloadUris}
MaxStartedPreload == 3

----------------------------------------------------------------------------
(* ImageMemoryManager *)

Max(a, b) == IF a >= b THEN a ELSE b

\* Faulty variant: the result is not floored at zero.
ReleaseMemory_NoFloor(u, bytes) == u - bytes

ReleaseMemory(u, bytes) == Max(0, u - bytes)

\* Faulty variant: every allocation is admitted.
CanAllocate_Always(u, bytes) == TRUE

\* Faulty variant: the limit itself counts as not available.
CanAllocate_Strict(u, bytes) == u + bytes < MEMORY_LIMIT

CanAllocate(u, bytes) == u + bytes <= MEMORY_LIMIT

\* Faulty variant: half is released from the warning threshold on.
TrackMemoryUsage_ReleasesAtWarning(u, bytes) ==
    LET u1 == u + bytes
    IN  IF u1 * 5 > MEMORY_LIMIT * 4 THEN Max(0, u1 - u1 \div 2) ELSE u1

\* Faulty variant: the usage is never reduced.
TrackMemoryUsage_NoReduction(u, bytes) == u + bytes

\* memoryUsage += bytes; above the limit: release memoryUsage * 0.5
TrackMemoryUsage(u, bytes) ==
    LET u1 == u + bytes
    IN  IF u1 * 5 > MEMORY_LIMIT * 4 /\ u1 > MEMORY_LIMIT
        THEN ReleaseMemory(u1, u1 \div 2)
        ELSE u1

\* Whether trackMemoryUsage calls ImageProcessor.forceCleanup(), which
\* clears the set of temporary files before memory is released.
TriggersForceCleanup(u, bytes) ==
    LET u1 == u + bytes
    IN  u1 * 5 > MEMORY_LIMIT * 4 /\ u1 > MEMORY_LIMIT

\* getMemoryUsage().percentage > 80
PercentageAbove80(u) == u * 5 > 4 * MEMORY_LIMIT

----------------------------------------------------------------------------
(* ImageProcessor: the memory pre-check and the conversion to base64 *)

\* canProcessImage: const memoryLimit = 50 * 1024 * 1024
PROCESS_MEMORY_LIMIT == 52428800

BytesPerPixel(format) == IF format = "png" THEN 4 ELSE 3

\* Math.round(rawSize + rawSize * 2.5): 3.5 * rawSize, a half rounded up
EstimateMemoryUsage(width, height, format) ==
    LET pixelCount == width * height
        rawSize == pixelCount * BytesPerPixel(format)
    IN  (7 * rawSize + 1) \div 2

\* Faulty variant: an estimate of exactly the ceiling is refused.
CanProcessImage_RefusesAtCeiling(width, height, format) ==
    LET estimatedMemory == EstimateMemoryUsage(width, height, format)
    IN  [canProcess |-> ~(estimatedMemory >= PROCESS_MEMORY_LIMIT),
         estimatedMemory |-> estimatedMemory,
         reason |-> estimatedMemory >= PROCESS_MEMORY_LIMIT]

\* reason: whether the result carries one
CanProcessImage(width, height, format) ==
    LET estimatedMemory == EstimateMemoryUsage(width, height, format)
    IN  IF estimatedMemory > PROCESS_MEMORY_LIMIT
        THEN [canProcess |-> FALSE, estimatedMemory |-> estimatedMemory, reason |-> TRUE]
        ELSE [canProcess |-> TRUE, estimatedMemory |-> estimatedMemory, reason |-> FALSE]

\* FileReader.readAsDataURL of a blob of n bytes: after the comma, four
\* characters for every three bytes, the last group padded with "=".
ReadAsDataURL(n) ==
    [length |-> 4 * ((n + 2) \div 3), padding |-> (3 - (n % 3)) % 3]

\* The number of bytes a base64 string decodes to.
DecodedBytes(base64) == (base64.length \div 4) * 3 - base64.padding

\* Math.floor((base64.length * 3) / 4)
Base64Size(base64) == (base64.length * 3) \div 4

\* convertToBase64 / compressAndConvertToBase64 for a source of n bytes
ConvertToBase64(n) ==
    [base64 |-> ReadAsDataURL(n), size |-> Base64Size(ReadAsDataURL(n))]

----------------------------------------------------------------------------
(* ImageCache: pure helpers.  A state st is [cache |-> ..., usage |-> ...]. *)

Truthy(x) == x # Undefined /\ x # 0

\* cached.compressedSize || cached.size
EntryBytes(e) == IF Truthy(e.compressedSize) THEN e.compressedSize ELSE e.size

HasKey(c, k) == \E i \in 1..Len(c) : c[i].key = k

IndexOf(c, k) == CHOOSE i \in 1..Len(c) : c[i].key = k

Get(c, k) == c[IndexOf(c, k)]

RemoveAt(c, i) == [j \in 1..(Len(c) - 1) |-> IF j < i THEN c[j] ELSE c[j + 1]]

\* Map.set: an existing key keeps its place in the iteration order
MapSet(c, e) ==
    IF HasKey(c, e.key) THEN [c EXCEPT ![IndexOf(c, e.key)] = e] ELSE Append(c, e)

RECURSIVE GetCacheSize(_)
GetCacheSize(c) ==
    IF c = <<>> THEN 0 ELSE EntryBytes(Head(c)) + GetCacheSize(Tail(c))

\* Faulty variant: an entry exactly CACHE_EXPIRY_MS old still counts as valid.
IsCacheValid_Inclusive(e, t) == t - e.timestamp <= CACHE_EXPIRY_MS

IsCacheValid(e, t) == t - e.timestamp < CACHE_EXPIRY_MS

ShouldCompress(size, priority) == size > SizeThreshold(priority)

ClearImage(st, k) ==
    IF HasKey(st.cache, k)
    THEN [cache |-> RemoveAt(st.cache, IndexOf(st.cache, k)),
          usage |-> ReleaseMemory(st.usage, EntryBytes(Get(st.cache, k)))]
    ELSE st

RECURSIVE ClearKeys(_, _)
ClearKeys(st, keys) ==
    IF keys = <<>> THEN st ELSE ClearKeys(ClearImage(st, Head(keys)), Tail(keys))

RECURSIVE ReleaseAll(_, _)
ReleaseAll(u, c) ==
    IF c = <<>> THEN u ELSE ReleaseAll(ReleaseMemory(u, EntryBytes(Head(c))), Tail(c))

ClearAll(st) == [cache |-> <<>>, usage |-> ReleaseAll(st.usage, st.cache)]

IsExpired(e, t) == t - e.timestamp > CACHE_EXPIRY_MS

RECURSIVE ExpiredKeys(_, _)
ExpiredKeys(c, t) ==
    IF c = <<>> THEN <<>>
    ELSE IF IsExpired(Head(c), t)
         THEN <<Head(c).key>> \o ExpiredKeys(Tail(c), t)
         ELSE ExpiredKeys(Tail(c), t)

RemoveExpiredEntries(st, t) == ClearKeys(st, ExpiredKeys(st.cache, t))

\* Faulty variant: the entries are taken in insertion order, not sorted.
SortedEntries_Unsorted(c) == c

\* Array.prototype.sort is stable: among equal lastAccessed the earlier
\* inserted entry comes first.
RECURSIVE SortedEntries(_)
SortedEntries(c) ==
    IF c = <<>> THEN <<>>
    ELSE LET i == CHOOSE i \in 1..Len(c) :
                    \A j \in 1..Len(c) :
                        \/ c[i].lastAccessed < c[j].lastAccessed
                        \/ c[i].lastAccessed = c[j].lastAccessed /\ i <= j
         IN  <<c[i]>> \o SortedEntries(RemoveAt(c, i))

RECURSIVE LruLoop(_, _, _, _)
LruLoop(st, sorted, freedBytes, requiredBytes) ==
    IF sorted = <<>> THEN st
    ELSE IF freedBytes >= requiredBytes
            /\ GetCacheSize(st.cache) * 5 <= MAX_CACHE_SIZE * 4
         THEN st
         ELSE LruLoop(ClearImage(st, Head(sorted).key), Tail(sorted),
                      freedBytes + EntryBytes(Head(sorted)), requiredBytes)

RemoveLeastRecentlyUsed(st, requiredBytes) ==
    LruLoop(st, SortedEntries(st.cache), 0, requiredBytes)

\* cleanup reads memoryUsage and cacheSize before it removes the expired entries
Cleanup(st, requiredBytes, t) ==
    LET memoryUsage == st.usage
        cacheSize == GetCacheSize(st.cache)
        st1 == RemoveExpiredEntries(st, t)
    IN  IF cacheSize + requiredBytes > MAX_CACHE_SIZE \/ PercentageAbove80(memoryUsage)
        THEN RemoveLeastRecentlyUsed(st1, requiredBytes)
        ELSE st1

\* Faulty variant: reset leaves the usage as it is.
Reset_Keeps(u) == u

\* reset(): memoryUsage = 0
Reset(u) == 0

\* One statement of a cleanup: ImageMemoryManager.reset() or
\* ImageCache.clearAll()
CleanupStatement(st, statement) ==
    IF statement = "reset"
    THEN [cache |-> st.cache, usage |-> Reset(st.usage)]
    ELSE ClearAll(st)

RECURSIVE RunStatements(_, _)
RunStatements(st, statements) ==
    IF statements = <<>>
    THEN st
    ELSE RunStatements(CleanupStatement(st, Head(statements)), Tail(statements))

\* Faulty variant: clearAll() comes before reset().
PerformCleanupStatements_ClearAllFirst == <<"clearAll", "reset">>

\* The statements of AppLifecycleManager.performCleanup after its await, in
\* the order of the code
PerformCleanupStatements == <<"reset", "clearAll">>

\* AppLifecycleManager.performCleanup after its await: reset(), then clearAll()
PerformCleanup(st) == RunStatements(st, PerformCleanupStatements)

\* The statements of forceCleanup of useImageMemoryMonitor after its await
HookForceCleanupStatements == <<"clearAll", "reset">>

\* forceCleanup of useImageMemoryMonitor after its await: clearAll(), then reset()
HookForceCleanup(st) == RunStatements(st, HookForceCleanupStatements)

\* Faulty variant: only the entry count is enforced.
EnforceCond_CountOnly(c) == Len(c) > MAX_CACHE_ENTRIES

EnforceCond(c) == Len(c) > MAX_CACHE_ENTRIES \/ GetCacheSize(c) > MAX_CACHE_SIZE

----------------------------------------------------------------------------
(* getCachedImage, one action per run-to-completion segment *)

NoCall == [imageUri |-> 0, estimatedSize |-> 0, processedUri |-> 0, processedSize |-> 0]

NoResult == [uri |-> 0, size |-> 0, fromCache |-> FALSE, line |-> 0]

\* No call is between cache.set and the end of the loop of enforceCacheLimits.
Free == \A c \in Calls : pc[c] \notin {"insert", "enforce"}

St == [cache |-> cache, usage |-> usage]

Or(a, b) == IF Truthy(a) THEN a ELSE b

\* Faulty variant: a hit also renews the entry's timestamp.
Hit_RenewsTimestamp(c, cached) ==
    /\ cache' = [cache EXCEPT ![IndexOf(cache, cached.key)] =
                    [cached EXCEPT !.accessCount = cached.accessCount + 1,
                                   !.lastAccessed = now,
                                   !.timestamp = now]]
    /\ result' = [result EXCEPT ![c] =
                    [uri |-> Or(cached.compressedUri, cached.uri),
                     size |-> Or(cached.compressedSize, cached.size),
                     fromCache |-> TRUE, line |-> 249]]
    /\ pc' = [pc EXCEPT ![c] = "done"]
    /\ UNCHANGED <<usage, now, spin>>

\* Lines 235-254: the hit path
Hit(c, cached) ==
    /\ cache' = [cache EXCEPT ![IndexOf(cache, cached.key)] =
                    [cached EXCEPT !.accessCount = cached.accessCount + 1,
                                   !.lastAccessed = now]]
    /\ result' = [result EXCEPT ![c] =
                    [uri |-> Or(cached.compressedUri, cached.uri),
                     size |-> Or(cached.compressedSize, cached.size),
                     fromCache |-> TRUE, line |-> 249]]
    /\ pc' = [pc EXCEPT ![c] = "done"]
    /\ UNCHANGED <<usage, now, spin>>

\* Lines 222-257: lookup, then on a miss the call awaits estimateImageSize.
\* options.cacheKey is left at its default, the imageUri.  A new call takes
\* the lowest free slot.
GetCachedImage(c, imageUri) ==
    /\ Free
    /\ UNCHANGED outside
    /\ pc[c] = "idle"
    /\ \A d \in Calls : d < c => pc[d] # "idle"
    /\ started' = started + 1
    /\ call' = [call EXCEPT ![c] =
                    [NoCall EXCEPT !.imageUri = imageUri, !.processedUri = imageUri]]
    /\ IF HasKey(cache, imageUri) /\ IsCacheValid(Get(cache, imageUri), now)
       THEN Hit(c, Get(cache, imageUri))
       ELSE /\ pc' = [pc EXCEPT ![c] = "estimate"]
            /\ UNCHANGED <<cache, usage, now, result, spin>>

\* Lines 271-281: trackMemoryUsage, then either await compressImage or go on
\* to build the entry.  options.priority and options.enableCompression are
\* read here and nowhere else, so the caller's choice of them is drawn here.
Proceed(c, st, estimatedSize, priority, enableCompression) ==
    /\ usage' = TrackMemoryUsage(st.usage, estimatedSize)
    /\ cache' = st.cache
    /\ call' = [call EXCEPT ![c].estimatedSize = estimatedSize,
                            ![c].processedSize = estimatedSize]
    /\ pc' = [pc EXCEPT ![c] =
                IF enableCompression /\ ShouldCompress(estimatedSize, priority)
                THEN "compress" ELSE "insert"]
    /\ UNCHANGED <<now, result, spin, started>>

\* Lines 464-473 and 257-260: estimateImageSize resolves (fetched: the blob
\* size, otherwise the 1MB default); canAllocate; cleanup when it is false.
EstimateDone(c, fetched, priority, enableCompression) ==
    /\ Free
    /\ UNCHANGED outside
    /\ pc[c] = "estimate"
    /\ LET estimatedSize ==
               IF fetched THEN SourceSize[call[c].imageUri] ELSE DEFAULT_ESTIMATE
       IN  IF CanAllocate(usage, estimatedSize)
           THEN Proceed(c, St, estimatedSize, priority, enableCompression)
           ELSE LET st1 == Cleanup(St, estimatedSize, now)
                IN  /\ cache' = st1.cache
                    /\ usage' = st1.usage
                    /\ call' = [call EXCEPT ![c].estimatedSize = estimatedSize,
                                            ![c].processedSize = estimatedSize]
                    /\ pc' = [pc EXCEPT ![c] = "recheck"]
                    /\ UNCHANGED <<now, result, spin, started>>

\* Faulty variant: canAllocate is not asked again after cleanup.
Recheck_NoSecondCheck(c, priority, enableCompression) ==
    /\ Free
    /\ UNCHANGED outside
    /\ pc[c] = "recheck"
    /\ Proceed(c, St, call[c].estimatedSize, priority, enableCompression)

\* Lines 262-269: after await cleanup, canAllocate again
Recheck(c, priority, enableCompression) ==
    /\ Free
    /\ UNCHANGED outside
    /\ pc[c] = "recheck"
    /\ IF ~CanAllocate(usage, call[c].estimatedSize)
       THEN /\ result' = [result EXCEPT ![c] =
                            [uri |-> call[c].imageUri,
                             size |-> call[c].estimatedSize,
                             fromCache |-> FALSE, line |-> 267]]
            /\ pc' = [pc EXCEPT ![c] = "done"]
            /\ UNCHANGED <<cache, usage, now, call, spin, started>>
       ELSE Proceed(c, St, call[c].estimatedSize, priority, enableCompression)

\* compressImage (pass-through): the same uri, and the fetched blob size or,
\* when the fetch fails, size 0
CompressImage(imageUri, fetched) ==
    [uri |-> imageUri, size |-> IF fetched THEN SourceSize[imageUri] ELSE 0]

\* Lines 283-302: compressImage resolves; adopt when below 80% of the estimate
CompressDone(c, fetched) ==
    /\ Free
    /\ UNCHANGED outside
    /\ pc[c] = "compress"
    /\ LET compressed == CompressImage(call[c].imageUri, fetched)
       IN  call' = IF compressed.size * 5 < call[c].estimatedSize * 4
                   THEN [call EXCEPT ![c].processedUri = compressed.uri,
                                     ![c].processedSize = compressed.size]
                   ELSE call
    /\ pc' = [pc EXCEPT ![c] = "insert"]
    /\ UNCHANGED <<cache, usage, now, result, spin, started>>

\* Lines 309-317
CacheEntry(c) ==
    [key |-> call[c].imageUri,
     uri |-> call[c].imageUri,
     compressedUri |-> IF call[c].processedUri # call[c].imageUri
                       THEN call[c].processedUri ELSE Undefined,
     size |-> call[c].estimatedSize,
     compressedSize |-> IF call[c].processedUri # call[c].imageUri
                        THEN call[c].processedSize ELSE Undefined,
     timestamp |-> now,
     accessCount |-> 1,
     lastAccessed |-> now]

\* Line 319: cache.set(cacheKey, cacheEntry)
Insert(c) ==
    /\ pc[c] = "insert"
    /\ UNCHANGED outside
    /\ cache' = MapSet(cache, CacheEntry(c))
    /\ pc' = [pc EXCEPT ![c] = "enforce"]
    /\ UNCHANGED <<usage, now, call, result, spin, started>>

\* Lines 495-503: one evaluation of the loop condition of enforceCacheLimits
\* and, when it holds, one removeLeastRecentlyUsed()
EnforcePass(c) ==
    /\ pc[c] = "enforce"
    /\ UNCHANGED outside
    /\ IF EnforceCond(cache)
       THEN LET st1 == RemoveLeastRecentlyUsed(St, 0)
            IN  /\ cache' = st1.cache
                /\ usage' = st1.usage
                /\ spin' = (spin \/ st1 = St)
                /\ UNCHANGED pc
       ELSE /\ pc' = [pc EXCEPT ![c] = "return"]
            /\ UNCHANGED <<cache, usage, spin>>
    /\ UNCHANGED <<now, call, result, started>>

\* Lines 322-337: after await enforceCacheLimits, the miss path returns
Return(c) ==
    /\ Free
    /\ UNCHANGED outside
    /\ pc[c] = "return"
    /\ result' = [result EXCEPT ![c] =
                    [uri |-> call[c].processedUri, size |-> call[c].processedSize,
                     fromCache |-> FALSE, line |-> 333]]
    /\ pc' = [pc EXCEPT ![c] = "done"]
    /\ UNCHANGED <<cache, usage, now, call, spin, started>>

\* The caller takes the result; the slot is free for the next call.
Consume(c) ==
    /\ Free
    /\ UNCHANGED outside
    /\ pc[c] = "done"
    /\ pc' = [pc EXCEPT ![c] = "idle"]
    /\ call' = [call EXCEPT ![c] = NoCall]
    /\ result' = [result EXCEPT ![c] = NoResult]
    /\ UNCHANGED <<cache, usage, now, spin, started>>

----------------------------------------------------------------------------
(* The synchronous operations of the cache, and the clock *)

ClearImageCall(k) ==
    /\ Free
    /\ UNCHANGED outside
    /\ HasKey(cache, k)
    /\ cache' = ClearImage(St, k).cache
    /\ usage' = ClearImage(St, k).usage
    /\ UNCHANGED <<now, pc, call, result, spin, started>>

ClearAllCall ==
    /\ Free
    /\ UNCHANGED outside
    /\ cache # <<>>
    /\ cache' = ClearAll(St).cache
    /\ usage' = ClearAll(St).usage
    /\ UNCHANGED <<now, pc, call, result, spin, started>>

CleanupCall(requiredBytes) ==
    /\ Free
    /\ UNCHANGED outside
    /\ cache' = Cleanup(St, requiredBytes, now).cache
    /\ usage' = Cleanup(St, requiredBytes, now).usage
    /\ UNCHANGED <<now, pc, call, result, spin, started>>

Tick(maxTicks) ==
    /\ Free
    /\ UNCHANGED outside
    /\ now < maxTicks * TickMs
    /\ now' = now + TickMs
    /\ UNCHANGED <<cache, usage, pc, call, result, spin, started>>

----------------------------------------------------------------------------

\* No direct call of the accountant has been made.
NoMemCall == [op |-> "none", bytes |-> 0, before |-> 0, returned |-> FALSE, n |-> 0]

\* AppLifecycleManager after initialize(): cleanupTimer null (0), no timer
\* pending, no performCleanup running.
NoLifecycle ==
    [isInitialized |-> FALSE, appState |-> "active", cleanupTimer |-> 0,
     pending |-> {}, issued |-> 0, cleaning |-> "idle", cleared |-> 0,
     statements |-> <<>>]

\* No call of ImageProcessor has been made.
NoProcessorCall == [op |-> "none", input |-> <<>>, returned |-> <<>>]

NoPreload ==
    [pc |-> "idle", uris |-> <<>>,
     options |-> [priority |-> "normal", enableCompression |-> TRUE]]

Init ==
    /\ cache = <<>>
    /\ usage = 0
    /\ now = 0
    /\ pc = [c \in Calls |-> "idle"]
    /\ call = [c \in Calls |-> NoCall]
    /\ result = [c \in Calls |-> NoResult]
    /\ spin = FALSE
    /\ started = 0
    /\ memCall = NoMemCall
    /\ lifecycle = NoLifecycle
    /\ preload = NoPreload
    /\ processor = NoProcessorCall

Next ==
    \/ \E c \in Calls, u \in Uris : started < MaxStarted /\ GetCachedImage(c, u)
    \/ \E c \in Calls, fetched \in BOOLEAN, p \in Priorities, en \in BOOLEAN :
            EstimateDone(c, fetched, p, en)
    \/ \E c \in Calls, p \in Priorities, en \in BOOLEAN : Recheck(c, p, en)
    \/ \E c \in Calls, fetched \in BOOLEAN : CompressDone(c, fetched)
    \/ \E c \in Calls : Insert(c)
    \/ \E c \in Calls : EnforcePass(c)
    \/ \E c \in Calls : Return(c)
    \/ \E c \in Calls : Consume(c)
    \/ \E r \in RequiredBytes : CleanupCall(r)
    \/ \E k \in Uris : ClearImageCall(k)
    \/ ClearAllCall
    \/ Tick(MaxTicks)

Spec == Init /\ [][Next]_vars

----------------------------------------------------------------------------
(* ImageMemoryManager called directly *)

MemCalled(op, bytes, returned) ==
    /\ memCall.n < MaxMemCalls
    /\ memCall' = [op |-> op, bytes |-> bytes, before |-> usage,
                   returned |-> returned, n |-> memCall.n + 1]
    /\ UNCHANGED <<cache, now, pc, call, result, spin, started, lifecycle, preload, processor>>

TrackCall(bytes) ==
    /\ MemCalled("track", bytes, TriggersForceCleanup(usage, bytes))
    /\ usage' = TrackMemoryUsage(usage, bytes)

ReleaseCall(bytes) ==
    /\ MemCalled("release", bytes, FALSE)
    /\ usage' = ReleaseMemory(usage, bytes)

CanAllocateCall(bytes) ==
    /\ MemCalled("canAllocate", bytes, CanAllocate(usage, bytes))
    /\ usage' = usage

ResetCall ==
    /\ MemCalled("reset", 0, FALSE)
    /\ usage' = Reset(usage)

NextMem ==
    \/ \E b \in MemBytes : TrackCall(b)
    \/ \E b \in MemBytes : ReleaseCall(b)
    \/ \E b \in MemBytes : CanAllocateCall(b)
    \/ ResetCall

SpecMem == Init /\ [][NextMem]_vars

----------------------------------------------------------------------------
(* AppLifecycleManager and the forceCleanup of useImageMemoryMonitor *)

LifeUnchanged ==
    UNCHANGED <<cache, usage, now, pc, call, result, spin, started, memCall, preload, processor>>

\* Lines 82-95: setTimeout; the handle replaces cleanupTimer, an earlier
\* timer is left pending.  Timer handles are 1, 2, ... in the order set.
HandleAppBackground ==
    /\ lifecycle.issued < MaxTimers
    /\ LET id == lifecycle.issued + 1
       IN  lifecycle' = [lifecycle EXCEPT !.appState = "background",
                                          !.cleanupTimer = id,
                                          !.pending = lifecycle.pending \cup {id},
                                          !.issued = id]

\* Lines 100-103
HandleAppInactive == lifecycle' = [lifecycle EXCEPT !.appState = "inactive"]

\* Lines 108-118: clearTimeout(cleanupTimer), cleanupTimer = null
HandleAppActive ==
    lifecycle' =
        IF lifecycle.cleanupTimer # 0
        THEN [lifecycle EXCEPT !.appState = "active",
                               !.pending = lifecycle.pending \ {lifecycle.cleanupTimer},
                               !.cleanupTimer = 0]
        ELSE [lifecycle EXCEPT !.appState = "active"]

\* Lines 18-33: initialize() subscribes handleAppStateChange; a second call
\* returns at once.
Initialize ==
    /\ Free
    /\ ~lifecycle.isInitialized
    /\ lifecycle' = [lifecycle EXCEPT !.isInitialized = TRUE]
    /\ LifeUnchanged

\* Lines 38-54: cleanup() removes the subscription, clears cleanupTimer and
\* sets it to null.
AppLifecycleCleanup ==
    /\ Free
    /\ lifecycle' =
          IF lifecycle.cleanupTimer # 0
          THEN [lifecycle EXCEPT !.isInitialized = FALSE,
                                 !.pending = lifecycle.pending \ {lifecycle.cleanupTimer},
                                 !.cleanupTimer = 0]
          ELSE [lifecycle EXCEPT !.isInitialized = FALSE]
    /\ LifeUnchanged

\* Lines 154-162: getStatus()
GetStatus ==
    [isInitialized |-> lifecycle.isInitialized,
     hasScheduledCleanup |-> lifecycle.cleanupTimer # 0]

\* Lines 59-77: the subscribed listener, called while the subscription exists
HandleAppStateChange(nextAppState) ==
    /\ Free
    /\ lifecycle.isInitialized
    /\ CASE nextAppState = "background" -> HandleAppBackground
         [] nextAppState = "inactive" -> HandleAppInactive
         [] nextAppState = "active" -> HandleAppActive
    /\ LifeUnchanged

\* A cleanup begins and awaits cleanupTempFiles(); by: who began it.  One
\* cleanup runs at a time.
CleanupBegins(by) ==
    /\ Free
    /\ lifecycle.cleaning \in {"idle", "done"}
    /\ lifecycle' = [lifecycle EXCEPT !.cleaning = by, !.cleared = 0,
                                      !.statements = <<"cleanupTempFiles">>]
    /\ LifeUnchanged

\* Lines 88-94: the callback of a pending timer runs performCleanup.  The
\* callback leaves cleanupTimer as it is.
CleanupTimerFires(id) ==
    /\ Free
    /\ id \in lifecycle.pending
    /\ lifecycle.cleaning \in {"idle", "done"}
    /\ lifecycle' = [lifecycle EXCEPT !.pending = lifecycle.pending \ {id},
                                      !.cleaning = "timer", !.cleared = 0,
                                      !.statements = <<"cleanupTempFiles">>]
    /\ LifeUnchanged

\* Lines 147-149
ForceCleanup == CleanupBegins("force")

\* useImageProcessing.ts lines 540-541
HookForceCleanupBegins == CleanupBegins("hook")

\* cleanupTempFiles() has resolved: the rest of the cleanup runs.
CleanupCompletes ==
    /\ Free
    /\ lifecycle.cleaning \in {"timer", "force", "hook"}
    /\ LET st1 == IF lifecycle.cleaning = "hook"
                  THEN HookForceCleanup(St) ELSE PerformCleanup(St)
       IN  /\ cache' = st1.cache
           /\ usage' = st1.usage
    /\ lifecycle' = [lifecycle EXCEPT
                        !.cleaning = "done", !.cleared = Len(cache),
                        !.statements =
                            lifecycle.statements \o
                                (IF lifecycle.cleaning = "hook"
                                 THEN HookForceCleanupStatements
                                 ELSE PerformCleanupStatements)]
    /\ UNCHANGED <<now, pc, call, result, spin, started, memCall, preload, processor>>

\* getCachedImage one call at a time, with the app's lifecycle around it.
NextLife ==
    \/ \E u \in LifeUris : started < MaxStartedLife /\ GetCachedImage(1, u)
    \/ \E fetched \in BOOLEAN, p \in Priorities, en \in BOOLEAN :
            EstimateDone(1, fetched, p, en)
    \/ \E p \in Priorities, en \in BOOLEAN : Recheck(1, p, en)
    \/ \E fetched \in BOOLEAN : CompressDone(1, fetched)
    \/ Insert(1)
    \/ EnforcePass(1)
    \/ Return(1)
    \/ Consume(1)
    \/ Initialize
    \/ AppLifecycleCleanup
    \/ \E a \in AppStates : HandleAppStateChange(a)
    \/ \E id \in 1..MaxTimers : CleanupTimerFires(id)
    \/ ForceCleanup
    \/ HookForceCleanupBegins
    \/ CleanupCompletes

SpecLife == Init /\ [][NextLife]_vars

----------------------------------------------------------------------------
(* ImageProcessor called directly *)

ProcessorCalled(op, input, returned) ==
    /\ processor' = [op |-> op, input |-> input, returned |-> returned]
    /\ UNCHANGED <<cache, usage, now, pc, call, result, spin, started, memCall, lifecycle,
                   preload>>

CanProcessImageCall(width, height, format) ==
    ProcessorCalled("canProcessImage", <<width, height, format>>,
                    CanProcessImage(width, height, format))

ConvertToBase64Call(n) ==
    ProcessorCalled("convertToBase64", <<n>>, ConvertToBase64(n))

CompressAndConvertToBase64Call(n) ==
    ProcessorCalled("compressAndConvertToBase64", <<n>>, ConvertToBase64(n))

\* The processor's calls, with the accountant's usage changing in between.
NextProc ==
    \/ \E d \in Dimensions, f \in Formats : CanProcessImageCall(d[1], d[2], f)
    \/ \E n \in RawBytes : ConvertToBase64Call(n)
    \/ \E n \in RawBytes : CompressAndConvertToBase64Call(n)
    \/ \E b \in MemBytes : TrackCall(b)

SpecProc == Init /\ [][NextProc]_vars

----------------------------------------------------------------------------
(* ImageCache.preloadImages *)

\* Faulty variant: the caller's priority is passed on.
PreloadOptions_Kept(options) == options

\* Line 364: { ...options, priority: 'low' }
PreloadOptions(options) == [options EXCEPT !.priority = "low"]

\* The getCachedImage calls of the list, one slot per uri.
Preloaded == 1..Len(preload.uris)

\* Lines 357-361: preloadImages is called; the slots of an earlier list are
\* free again.
PreloadImages(imageUris, options) ==
    /\ Free
    /\ preload.pc \in {"idle", "resolved"}
    /\ started + Len(imageUris) <= MaxStartedPreload
    /\ preload' = [pc |-> "map", uris |-> imageUris, options |-> options]
    /\ pc' = [c \in Calls |-> "idle"]
    /\ call' = [c \in Calls |-> NoCall]
    /\ result' = [c \in Calls |-> NoResult]
    /\ UNCHANGED <<cache, usage, now, spin, started, memCall, lifecycle, processor>>

\* Lines 361-363: imageUris.map starts the call for the next uri of the
\* list, which runs up to its first await (or returns its hit).
PreloadMap(c) ==
    /\ preload.pc = "map"
    /\ c \in Preloaded
    /\ GetCachedImage(c, preload.uris[c])

\* Line 369: every call is started; await Promise.allSettled
PreloadAwait ==
    /\ preload.pc = "map"
    /\ \A c \in Preloaded : pc[c] # "idle"
    /\ preload' = [preload EXCEPT !.pc = "await"]
    /\ UNCHANGED <<cache, usage, now, pc, call, result, spin, started, memCall, lifecycle,
                   processor>>

\* Lines 369-370: all the calls have settled; the promise resolves
PreloadSettled ==
    /\ preload.pc = "await"
    /\ \A c \in Preloaded : pc[c] = "done"
    /\ preload' = [preload EXCEPT !.pc = "resolved"]
    /\ UNCHANGED <<cache, usage, now, pc, call, result, spin, started, memCall, lifecycle,
                   processor>>

\* Every getCachedImage call is one of a preloadImages list.
NextPreload ==
    \/ \E l \in PreloadLists, p \in Priorities, en \in BOOLEAN :
            PreloadImages(l, [priority |-> p, enableCompression |-> en])
    \/ \E c \in Calls : PreloadMap(c)
    \/ PreloadAwait
    \/ \E c \in Calls, fetched \in BOOLEAN :
            /\ preload.pc = "await"
            /\ EstimateDone(c, fetched, PreloadOptions(preload.options).priority,
                            PreloadOptions(preload.options).enableCompression)
    \/ \E c \in Calls :
            /\ preload.pc = "await"
            /\ Recheck(c, PreloadOptions(preload.options).priority,
                       PreloadOptions(preload.options).enableCompression)
    \/ \E c \in Calls, fetched \in BOOLEAN : preload.pc = "await" /\ CompressDone(c, fetched)
    \/ \E c \in Calls : Insert(c)
    \/ \E c \in Calls : EnforcePass(c)
    \/ \E c \in Calls : preload.pc = "await" /\ Return(c)
    \/ PreloadSettled

\* Promise.allSettled resolves once its promises have settled.
SpecPreload == Init /\ [][NextPreload]_vars /\ WF_vars(PreloadSettled)

----------------------------------------------------------------------------

\* One call at a time: only the first slot is used.
NextSeq ==
    \/ \E u \in Uris : started < MaxStartedSeq /\ GetCachedImage(1, u)
    \/ \E fetched \in BOOLEAN, p \in Priorities, en \in BOOLEAN :
            EstimateDone(1, fetched, p, en)
    \/ \E p \in Priorities, en \in BOOLEAN : Recheck(1, p, en)
    \/ \E fetched \in BOOLEAN : CompressDone(1, fetched)
    \/ Insert(1)
    \/ EnforcePass(1)
    \/ Return(1)
    \/ Consume(1)
    \/ \E r \in RequiredBytes : CleanupCall(r)
    \/ \E k \in Uris : ClearImageCall(k)
    \/ ClearAllCall
    \/ Tick(MaxTicksSeq)

SpecSeq == Init /\ [][NextSeq]_vars

\* Overlapping calls under load: two slots, more calls than in Spec, the
\* large images only, and the clock standing still.
LoadUris == {2, 3, 6}

MaxStartedLoad == 4

NextLoad ==
    \/ \E c \in Calls, u \in LoadUris : started < MaxStartedLoad /\ GetCachedImage(c, u)
    \/ \E c \in Calls, fetched \in BOOLEAN, p \in Priorities, en \in BOOLEAN :
            EstimateDone(c, fetched, p, en)
    \/ \E c \in Calls, p \in Priorities, en \in BOOLEAN : Recheck(c, p, en)
    \/ \E c \in Calls, fetched \in BOOLEAN : CompressDone(c, fetched)
    \/ \E c \in Calls : Insert(c)
    \/ \E c \in Calls : EnforcePass(c)
    \/ \E c \in Calls : Return(c)
    \/ \E c \in Calls : Consume(c)
    \/ \E r \in RequiredBytes : CleanupCall(r)
    \/ \E k \in LoadUris : ClearImageCall(k)
    \/ ClearAllCall

SpecLoad == Init /\ [][NextLoad]_vars

\* A continuation of call c: the event loop runs it once what it awaits has
\* resolved.
CallStep(c) ==
    \/ \E fetched \in BOOLEAN, p \in Priorities, en \in BOOLEAN :
            EstimateDone(c, fetched, p, en)
    \/ \E p \in Priorities, en \in BOOLEAN : Recheck(c, p, en)
    \/ \E fetched \in BOOLEAN : CompressDone(c, fetched)
    \/ Insert(c)
    \/ EnforcePass(c)
    \/ Return(c)

\* SpecSeq with the event loop running every continuation that is ready.
SpecSeqFair == SpecSeq /\ WF_vars(CallStep(1))

----------------------------------------------------------------------------
(* Properties *)

\* No getCachedImage call is in flight: every slot is idle or has returned.
Quiescent == \A c \in Calls : pc[c] \in {"idle", "done"}

\* The insertion step of call c (line 319) is taken.
InsertStep(c) == pc[c] = "insert" /\ pc'[c] = "enforce"

\* C1: in every quiescent state the accountant's current usage equals the sum
\* of (compressedSize or size) over the entries of the cache.
C1_UsageEqualsCacheSum == Quiescent => usage = GetCacheSize(cache)

\* C2: when a miss inserts at a key that still holds an expired entry, the
\* insertion releases the bytes of the prior entry (the bytes of the new entry
\* were added by trackMemoryUsage earlier in the call).
C2_ReplaceReleasesExpired ==
    [][\A c \in Calls :
          (/\ InsertStep(c)
           /\ HasKey(cache, call[c].imageUri)
           /\ ~IsCacheValid(Get(cache, call[c].imageUri), now))
          => usage' = usage - EntryBytes(Get(cache, call[c].imageUri))]_vars

\* C3: when two calls for one key overlap, both having missed before either
\* inserted, the second insertion finds the entry of the first (still valid)
\* and releases the bytes the first call accounted; one entry remains.
C3_OverlapReleasesFirst ==
    [][\A c \in Calls :
          (/\ InsertStep(c)
           /\ HasKey(cache, call[c].imageUri)
           /\ IsCacheValid(Get(cache, call[c].imageUri), now))
          => /\ usage' = usage - EntryBytes(Get(cache, call[c].imageUri))
             /\ Cardinality({i \in 1..Len(cache') :
                                cache'[i].key = call[c].imageUri}) = 1]_vars

\* C4: once a getCachedImage call has returned, and once its limit
\* enforcement has run a pass of its loop, the cache holds at most
\* MAX_CACHE_ENTRIES entries (one image more than the limit, inserted one at
\* a time, leaves exactly the limit).
C4_EntriesWithinLimit ==
    (spin \/ \E c \in Calls : pc[c] \in {"return", "done"})
        => Len(cache) <= MAX_CACHE_ENTRIES

\* C5: outside the uninterruptible insert-and-enforce segment, so in
\* particular whenever a getCachedImage call has returned, the sum of
\* (compressedSize or size) over the entries is at most MAX_CACHE_SIZE.
C5_SizeWithinLimit == Free => GetCacheSize(cache) <= MAX_CACHE_SIZE

\* A call has just inserted an entry that takes the cache over MAX_CACHE_SIZE.
C5_Witness == \E c \in Calls : pc[c] = "enforce" /\ GetCacheSize(cache) > MAX_CACHE_SIZE

\* No entry of before that is missing in after is newer (by lastAccessed)
\* than an entry that remains in after.
EvictsOldestFirst(before, after) ==
    \A i \in 1..Len(before) :
        ~HasKey(after, before[i].key)
            => \A j \in 1..Len(after) :
                    after[j].lastAccessed >= before[i].lastAccessed

\* A step that runs cleanup: a direct call, or the one of line 260.
CleanupStep ==
    \/ \E r \in RequiredBytes : CleanupCall(r)
    \/ \E c \in Calls : pc[c] = "estimate" /\ pc'[c] = "recheck"

\* A step that runs one pass of the loop of enforceCacheLimits.
EnforceStep == \E c \in Calls : pc[c] = "enforce"

\* C6 as stated: no step of limit enforcement or cleanup evicts an entry
\* while an entry with a strictly older lastAccessed remains in the cache.
C6_EvictionOldestFirst ==
    [][(EnforceStep \/ CleanupStep) => EvictsOldestFirst(cache, cache')]_vars

\* C6 amended: the entries removeLeastRecentlyUsed evicts, in limit
\* enforcement and in cleanup after its expiry sweep, go in ascending order
\* of lastAccessed: none is evicted while a strictly older one remains.
C6_LruEvictionOldestFirst ==
    [][/\ EnforceStep => EvictsOldestFirst(cache, cache')
       /\ CleanupStep =>
            EvictsOldestFirst(RemoveExpiredEntries(St, now).cache, cache')]_vars

\* removeLeastRecentlyUsed is about to evict some entries and keep others,
\* and the entries differ in lastAccessed.
C6_Witness ==
    /\ \E i, j \in 1..Len(cache) : cache[i].lastAccessed < cache[j].lastAccessed
    /\ \/ /\ \E c \in Calls : pc[c] = "enforce"
          /\ EnforceCond(cache)
          /\ RemoveLeastRecentlyUsed(St, 0).cache # <<>>
          /\ RemoveLeastRecentlyUsed(St, 0).cache # cache
       \/ /\ Free
          /\ \E r \in RequiredBytes :
                /\ Cleanup(St, r, now).cache # <<>>
                /\ Cleanup(St, r, now).cache # RemoveExpiredEntries(St, now).cache

\* C7: a call for k that hits while an earlier call for k has returned from
\* its miss returns fromCache with the size the miss returned, and leaves
\* the entry with accessCount 2.
C7_HitRepeatsMiss ==
    [][\A c, d \in Calls :
          (/\ c # d
           /\ pc[d] = "done" /\ result[d].line = 333
           /\ pc[c] = "idle" /\ pc'[c] = "done"
           /\ call'[c].imageUri = call[d].imageUri)
          => /\ result'[c].fromCache
             /\ result'[c].size = result[d].size
             /\ Get(cache', call[d].imageUri).accessCount = 2]_vars

\* C8: a lookup that finds an entry of age >= CACHE_EXPIRY_MS takes the miss
\* path, and every result with fromCache comes from an entry younger than that.
C8_NoHitOnExpired ==
    [][\A c \in Calls :
          (pc[c] = "idle" /\ pc'[c] # "idle")
          => LET k == call'[c].imageUri
             IN  /\ (HasKey(cache, k) /\ now - Get(cache, k).timestamp >= CACHE_EXPIRY_MS)
                        => pc'[c] = "estimate"
                 /\ (pc'[c] = "done" /\ result'[c].fromCache)
                        => /\ HasKey(cache, k)
                           /\ now - Get(cache, k).timestamp < CACHE_EXPIRY_MS]_vars

\* A call is on the miss path while the entry of its key, exactly
\* CACHE_EXPIRY_MS old, is still in the cache.
C8_Witness ==
    \E c \in Calls :
        /\ pc[c] = "estimate"
        /\ HasKey(cache, call[c].imageUri)
        /\ now - Get(cache, call[c].imageUri).timestamp = CACHE_EXPIRY_MS

\* C9: a step of cleanup leaves no entry whose age at the call was
\* >= CACHE_EXPIRY_MS.
C9_CleanupPurgesExpired ==
    [][CleanupStep =>
          \A i \in 1..Len(cache) :
              now - cache[i].timestamp >= CACHE_EXPIRY_MS
                  => ~HasKey(cache', cache[i].key)]_vars

\* C10: when canAllocate(estimatedSize) is false again after cleanup, the
\* call returns the original uri with fromCache false, the cache is left as
\* it is and nothing is added to the accountant.
C10_FallsBackWithoutAccounting ==
    [][\A c \in Calls :
          (/\ pc[c] = "recheck" /\ pc'[c] # "recheck"
           /\ usage + call[c].estimatedSize > MEMORY_LIMIT)
          => /\ pc'[c] = "done"
             /\ result'[c].uri = call[c].imageUri
             /\ result'[c].fromCache = FALSE
             /\ cache' = cache
             /\ usage' = usage]_vars

\* A call has returned through the insufficient-memory path (line 267).
C10_Witness == \E c \in Calls : pc[c] = "done" /\ result[c].line = 267

\* C11: compressImage returned its actual size s for a call with estimate e:
\* the result is adopted exactly when s <= 0.8 * e; a call that adopted s
\* inserts an entry with compressedSize = s, and a call that did not adopt
\* inserts an entry without compressedSize whose size is e.
C11_AdoptedSizeIsStored ==
    [][\A c \in Calls :
          LET e == call[c].estimatedSize
              s == SourceSize[call[c].imageUri]
          IN  /\ CompressDone(c, TRUE)
                    => ((call'[c].processedSize # e) <=> (s * 5 <= e * 4))
              /\ InsertStep(c)
                    => LET entry == Get(cache', call[c].imageUri)
                       IN  IF call[c].processedSize # e /\ call[c].processedSize > 0
                           THEN entry.compressedSize = call[c].processedSize
                           ELSE entry.compressedSize = Undefined /\ entry.size = e]_vars

\* C12: when compressImage cannot read the source, the call keeps the
\* original: processedUri and processedSize, which the miss path returns as
\* uri and size (line 333), stay the imageUri and the estimated size, and the
\* entry it inserts has size e and no compressedSize.
C12_CompressionFailureKeepsOriginal ==
    [][\A c \in Calls :
          /\ CompressDone(c, FALSE)
                => /\ call'[c].processedUri = call[c].imageUri
                   /\ call'[c].processedSize = call[c].estimatedSize
          /\ (InsertStep(c) /\ call[c].processedSize = 0)
                => LET entry == Get(cache', call[c].imageUri)
                   IN  entry.compressedSize = Undefined
                       /\ entry.size = call[c].estimatedSize]_vars

\* C13: when the fetch of estimateImageSize fails, the call ends there with
\* an error for its caller ("rejected"); the step accounts no bytes and the
\* cache is left as it is.
C13_EstimateFailureSurfaced ==
    [][\A c \in Calls, p \in Priorities, en \in BOOLEAN :
          EstimateDone(c, FALSE, p, en)
              => /\ pc'[c] = "rejected"
                 /\ usage' = usage
                 /\ cache' = cache]_vars

\* C14 as stated: for every usage and every byte count, trackMemoryUsage(b)
\* followed by releaseMemory(b) brings the usage back to what it was.
C14_TrackReleaseRoundTrip ==
    [][\A b \in MemBytes : TrackCall(b) => ReleaseMemory(usage', b) = usage]_vars

\* C14 amended: the round trip holds when usage + b is within MEMORY_LIMIT,
\* where trackMemoryUsage makes no emergency release.
C14_RoundTripWithinLimit ==
    [][\A b \in MemBytes :
          (TrackCall(b) /\ usage + b <= MEMORY_LIMIT)
              => ReleaseMemory(usage', b) = usage]_vars

\* trackMemoryUsage(b) with b > 0 was called on a usage c > 0 and took the
\* usage to exactly MEMORY_LIMIT.
C14_Witness ==
    /\ memCall.op = "track"
    /\ memCall.before > 0 /\ memCall.bytes > 0
    /\ usage = memCall.before + memCall.bytes
    /\ usage = MEMORY_LIMIT

\* C15: canAllocate(b) returns true exactly when usage + b <= MEMORY_LIMIT,
\* and the call changes neither the usage nor the cache.
C15_CanAllocateIsPureQuery ==
    [][\A b \in MemBytes :
          CanAllocateCall(b)
              => /\ memCall'.returned = (usage + b <= MEMORY_LIMIT)
                 /\ usage' = usage
                 /\ cache' = cache]_vars

\* canAllocate answered true at exactly the limit (usage + b = MEMORY_LIMIT
\* with usage > 0).
C15_Witness ==
    /\ memCall.op = "canAllocate"
    /\ memCall.returned
    /\ memCall.before > 0
    /\ memCall.before + memCall.bytes = MEMORY_LIMIT

\* C16: the usage is never negative, and releaseMemory(b) sets it to
\* max(0, usage - b): 0 when b exceeds it, usage - b otherwise.
C16_UsageNeverNegative ==
    /\ [](usage >= 0)
    /\ [][\A b \in MemBytes :
             ReleaseCall(b)
                 => usage' = IF b > usage THEN 0 ELSE usage - b]_vars

\* releaseMemory was called with more bytes than were tracked.
C16_Witness ==
    /\ memCall.op = "release"
    /\ memCall.before > 0
    /\ memCall.bytes > memCall.before
    /\ usage = 0

\* C17: when a cleanup (forceCleanup of AppLifecycleManager or of
\* useImageMemoryMonitor, or the timer's performCleanup) completes, the cache
\* has no entries and the accountant's usage is 0.
C17_ForceCleanupEmptiesAll ==
    [][CleanupCompletes => (cache' = <<>> /\ usage' = 0)]_vars

\* A forceCleanup has completed that found entries in the cache, with no
\* getCachedImage call in flight.
C17_Witness ==
    /\ lifecycle.cleaning = "done"
    /\ lifecycle.cleared > 0
    /\ Quiescent
    /\ cache = <<>> /\ usage = 0

\* C18: no timer-driven cleanup runs after an active event that arrived
\* while its timer was pending.  While the last event is "active" every
\* pending timer was set before that event, so none may fire.
C18_ActiveCancelsScheduledCleanup ==
    [][\A id \in 1..MaxTimers :
          CleanupTimerFires(id) => lifecycle.appState # "active"]_vars

\* C19: once all getCachedImage calls and cleanups have completed, every
\* entry's bytes are counted in the accountant and no bytes are counted
\* without an entry, whatever suspension point a cleanup interleaved at.
C19_CleanupInterleavingKeepsAccounts ==
    (Quiescent /\ lifecycle.cleaning \in {"idle", "done"})
        => /\ usage >= GetCacheSize(cache)
           /\ usage <= GetCacheSize(cache)

\* C20: once preloadImages awaits, a getCachedImage call has been made for
\* every uri of its list, whatever became of the others; each call decides
\* on compression with priority 'low', whatever priority the options name;
\* the promise is resolved only when every call has settled, and once they
\* all have settled it does resolve.
C20_PreloadAttemptsAllAtLow ==
    /\ [](preload.pc \in {"await", "resolved"}
            => \A c \in Preloaded :
                    pc[c] # "idle" /\ call[c].imageUri = preload.uris[c])
    /\ [][\A c \in Calls :
             (pc[c] \in {"estimate", "recheck"} /\ pc'[c] \in {"compress", "insert"})
                 => (pc'[c] = "compress"
                        <=> /\ preload.options.enableCompression
                            /\ call'[c].estimatedSize > SizeThreshold("low"))]_vars
    /\ [](preload.pc = "resolved" => \A c \in Preloaded : pc[c] = "done")
    /\ ((preload.pc = "await" /\ \A c \in Preloaded : pc[c] = "done")
            ~> preload.pc = "resolved")

\* preloadImages of two uris with priority 'high' in its options has
\* resolved; the fetch for the first uri failed, and the second, an image of
\* 2,000,000 bytes (over the 'high' threshold, under the 'low' one), was
\* cached all the same.
C20_Witness ==
    /\ preload.pc = "resolved"
    /\ Len(preload.uris) = 2
    /\ preload.options.priority = "high" /\ preload.options.enableCompression
    /\ call[1].estimatedSize = DEFAULT_ESTIMATE
    /\ call[2].estimatedSize = 2000000
    /\ result[2].line = 333
    /\ HasKey(cache, call[2].imageUri)

\* C21: canProcessImage returns canProcess false, with a reason, exactly
\* when round(width * height * bytesPerPixel * 3.5) exceeds 50MB, and true
\* without a reason otherwise; the accountant's usage plays no part and is
\* left as it is; for the same dimensions the png estimate is strictly
\* greater than the jpeg estimate.
C21_CanProcessByEstimateAlone ==
    [][\A d \in Dimensions, f \in Formats :
          CanProcessImageCall(d[1], d[2], f)
              => LET bpp == IF f = "png" THEN 4 ELSE 3
                     twice == d[1] * d[2] * bpp * 7
                     r == processor'.returned
                 IN  /\ r.estimatedMemory * 2 \in {twice, twice + 1}
                     /\ r.canProcess = (r.estimatedMemory <= 50 * 1024 * 1024)
                     /\ r.reason = ~r.canProcess
                     /\ usage' = usage
                     /\ EstimateMemoryUsage(d[1], d[2], "png")
                            > EstimateMemoryUsage(d[1], d[2], "jpeg")]_vars

\* canProcessImage accepted an image whose estimate is exactly the 50MB
\* ceiling, while the accountant's usage was above its own limit's half.
C21_Witness ==
    /\ processor.op = "canProcessImage"
    /\ processor.returned.estimatedMemory = 50 * 1024 * 1024
    /\ processor.returned.canProcess
    /\ usage * 2 > MEMORY_LIMIT

\* C28: for an image of n raw bytes, the size convertToBase64 and
\* compressAndConvertToBase64 report is n, the number of bytes their base64
\* string decodes to, also when n is no multiple of 3 and the string is padded.
C28_Base64SizeIsDecodedBytes ==
    [][\A n \in RawBytes :
          (ConvertToBase64Call(n) \/ CompressAndConvertToBase64Call(n))
              => /\ DecodedBytes(processor'.returned.base64) = n
                 /\ processor'.returned.size = n]_vars

\* C22: every getCachedImage call that misses eventually returns, and every
\* pass of the loop of enforceCacheLimits that finds a limit exceeded removes
\* at least one entry.
C22_EveryCallReturns ==
    /\ \A c \in Calls : (pc[c] = "estimate") ~> (pc[c] = "done")
    /\ [][\A c \in Calls :
             (pc[c] = "enforce" /\ EnforceCond(cache)) => Len(cache') < Len(cache)]_vars

\* The cache once the i - 1 least recently accessed entries of c are evicted.
AfterEvicting(c, i) ==
    ClearKeys([cache |-> c, usage |-> 0],
              [j \in 1..(i - 1) |-> SortedEntries(c)[j].key]).cache

\* C23: limit enforcement evicts the least recently accessed entries one at
\* a time and stops as soon as the entry count and the total size are both
\* within their limits: every entry a pass evicts is evicted in a state
\* where a limit is still exceeded.
C23_EnforcementStopsAtLimits ==
    [][\A c \in Calls :
          pc[c] = "enforce"
              => \A i \in 1..(Len(cache) - Len(cache')) :
                     EnforceCond(AfterEvicting(cache, i))]_vars

\* C24: cleanup(requiredBytes) removes an entry that is not expired only
\* if, once the expired entries are removed, the cache size plus
\* requiredBytes still exceeds MAX_CACHE_SIZE or the usage percentage is
\* above 80; otherwise exactly the expired entries are removed.
C24_CleanupSparesLiveEntries ==
    [][\A r \in RequiredBytes :
          CleanupCall(r)
              => LET st1 == RemoveExpiredEntries(St, now)
                 IN  ~(\/ GetCacheSize(st1.cache) + r > MAX_CACHE_SIZE
                       \/ PercentageAbove80(st1.usage))
                         => cache' = st1.cache]_vars

\* C25: trackMemoryUsage(b) that brings the usage above MEMORY_LIMIT
\* calls the processor's force cleanup and leaves half of (previous + b);
\* otherwise it leaves exactly previous + b and forces no cleanup.  (All
\* sums met here are even, so the half is exact as in the code.)
C25_TrackHalvesAboveLimit ==
    [][\A b \in MemBytes :
          TrackCall(b)
              => IF usage + b > MEMORY_LIMIT
                 THEN 2 * usage' = usage + b /\ memCall'.returned
                 ELSE usage' = usage + b /\ ~memCall'.returned]_vars

C25_Witness ==
    /\ memCall.op = "track"
    /\ memCall.before + memCall.bytes > MEMORY_LIMIT
    /\ memCall.before > 0
    /\ 2 * usage = memCall.before + memCall.bytes
    /\ memCall.returned

\* A step in which call c passes canAllocate and runs trackMemoryUsage.
TrackStep(c) ==
    /\ pc[c] \in {"estimate", "recheck"}
    /\ pc'[c] \in {"compress", "insert"}

\* C29: under any interleaving of getCachedImage (overlapping, as in
\* preloadImages), clearImage, clearAll and cleanup calls, the usage never
\* exceeds MEMORY_LIMIT, and the step that admits an allocation records
\* exactly the estimate on top of the usage it was admitted against: the
\* emergency reduction does not run.
C29_UsageNeverExceedsLimit ==
    /\ [](usage <= MEMORY_LIMIT)
    /\ [][\A c \in Calls :
            TrackStep(c) => /\ usage' = usage + call'[c].estimatedSize
                            /\ ~TriggersForceCleanup(usage, call'[c].estimatedSize)]_vars

C29_Witness ==
    /\ pc[1] \in {"compress", "insert"}
    /\ pc[2] \in {"compress", "insert"}
    /\ call[1].imageUri # call[2].imageUri
    /\ usage * 5 > MEMORY_LIMIT * 4
    /\ usage <= MEMORY_LIMIT

\* A step that completes a forceCleanup() of AppLifecycleManager.
ForceCleanupCompletes == CleanupCompletes /\ lifecycle.cleaning = "force"

C30_StatusTellsPendingTimer ==
    /\ GetStatus.hasScheduledCleanup <=> (lifecycle.pending # {})
    /\ Cardinality(lifecycle.pending) <= 1

\* A step in which call c is served from the cache.
HitStep(c) == pc[c] = "idle" /\ pc'[c] = "done"

\* C27: a cache hit leaves the usage, the cached keys and their order as
\* they are, changes no entry but the one hit, and of that entry changes
\* nothing but accessCount and lastAccessed.
C27_HitChangesOnlyAccessFields ==
    [][\A c \in Calls :
          HitStep(c)
              => /\ usage' = usage
                 /\ Len(cache') = Len(cache)
                 /\ \A i \in 1..Len(cache) :
                        /\ [cache'[i] EXCEPT !.accessCount = cache[i].accessCount,
                                             !.lastAccessed = cache[i].lastAccessed]
                               = cache[i]
                        /\ cache[i].key # call'[c].imageUri => cache'[i] = cache[i]]_vars

\* A call has been served from a cache of two entries, later than the hit
\* entry was stored.
C27_Witness ==
    /\ pc[1] = "done"
    /\ result[1].fromCache
    /\ Len(cache) = 2
    /\ HasKey(cache, call[1].imageUri)
    /\ Get(cache, call[1].imageUri).accessCount = 2
    /\ Get(cache, call[1].imageUri).lastAccessed > Get(cache, call[1].imageUri).timestamp


====
